---- MODULE Spec2Model ----
(***************************************************************************)
(* Model of the dynamic tool-visibility filtering subsystem of rhoai-mcp:  *)
(*   ConversationContextBuffer  (composites/optimizer/context.py)          *)
(*   SmallModelOptimizer        (composites/optimizer/manager.py)          *)
(*   ToolScopeManager           (composites/toolscope/manager.py)          *)
(* Tool descriptors are identified by their name; text is a sequence of    *)
(* one-character strings.                                                   *)
(***************************************************************************)
EXTENDS Integers, Sequences, FiniteSets, TLC

VARIABLES
    small_model_mode,          \* config.small_model_mode
    small_model_max_tools,     \* config.small_model_max_tools
    small_model_pinned_tools,  \* config.small_model_pinned_tools (as a set)
    max_size,                  \* ConversationContextBuffer._max_size
    entries,                   \* ConversationContextBuffer._entries (deque)
    host_tools,                \* the tools registered in the host's tool manager
    list_tools_attr,           \* what mcp._tool_manager.list_tools is bound to
    all_tools,                 \* SmallModelOptimizer._all_tools (keys)
    original_list_tools,       \* SmallModelOptimizer._original_list_tools
    installed,                 \* SmallModelOptimizer._installed
    toolscope,                 \* SmallModelOptimizer._toolscope
    ts_initialized,            \* ToolScopeManager._initialized
    ts_index,                  \* ToolScopeManager._index
    ts_tool_metadata,          \* ToolScopeManager._tool_metadata (keys)
    ts_config,                 \* the toolscope_* options of the configuration
    result,                    \* what the last operation returned
    added,                     \* history: entries added since construction/clear
    original_reads,            \* history: engine calls of the host's enumeration
    search_failed              \* history: a query of the READY index has failed

vars == <<small_model_mode, small_model_max_tools, small_model_pinned_tools,
          max_size, entries, host_tools, list_tools_attr, all_tools,
          original_list_tools, installed, toolscope, ts_initialized, ts_index,
          ts_tool_metadata, ts_config, result, added, original_reads,
          search_failed>>

config_vars == <<small_model_mode, small_model_max_tools,
                 small_model_pinned_tools, max_size, host_tools, toolscope,
                 ts_config>>

engine_vars == <<list_tools_attr, all_tools, original_list_tools, installed>>

ts_vars == <<ts_initialized, ts_index, ts_tool_metadata>>

(***************************************************************************)
(* Bounds                                                                  *)
(***************************************************************************)
MaxTools == 2           \* largest small_model_max_tools explored
MaxContextSize == 2     \* buffer capacity of the engine explored
MaxBufferSize == 4      \* largest buffer capacity explored by the buffer alone
MaxAdds == 4            \* longest add history explored
MaxMatches == 2         \* longest backend answer explored
MaxRecords == 1         \* record_context calls explored by the engine

(***************************************************************************)
(* Names and text                                                          *)
(***************************************************************************)
NONE == "none"
MINIMAL == "minimal"
MODERATE == "moderate"
AGGRESSIVE == "aggressive"
SmallModelMode == {NONE, MINIMAL, MODERATE, AGGRESSIVE}

\* Variant of defaults: the list written in the opposite order
defaults_reordered == <<"project_summary", "cluster_summary", "explore_cluster">>

defaults == <<"explore_cluster", "cluster_summary", "project_summary">>

CatalogNames == {"train", "explore_cluster", "cluster_summary", "project_summary"}
MissingName == "nonexistent_tool"
PinnedNames == {"train", "explore_cluster", MissingName}
\* The pinned-tool configurations explored
PinnedSets == { {}, {"train", MissingName}, {"explore_cluster"},
                {"train", "explore_cluster"} }
MatchNames == {"train", "cluster_summary"}

\* toolscope_enabled, toolscope_embedder_type, toolscope_embedder_url
TsConfig(enabled, type, url) == [enabled |-> enabled, type |-> type, url |-> url]
HttpConfig == TsConfig(TRUE, "http", "url")
TsConfigs == { TsConfig(e, t, u) : e \in BOOLEAN,
               t \in {"disabled", "sentence-transformers", "http"},
               u \in {"", "url"} }
EngineTsConfigs == { HttpConfig }

SPACE == " "
Queries == { <<>>, <<"a">>, <<"b", SPACE, "c">> }
EngineQueries == { <<>>, <<"a">> }
ToolCalls == { <<>>, <<"train">> }

Range(s) == { s[i] : i \in 1..Len(s) }

\* ToolScopeManager._index: None, or the index toolscope.index(tools) built
NoIndex == [built |-> FALSE, tools |-> {}]
Index(tools) == [built |-> TRUE, tools |-> tools]

(***************************************************************************)
(* ConversationContextBuffer                                               *)
(***************************************************************************)
\* ContextEntry(query, timestamp, tool_calls or []); the timestamp is read by
\* no operation and is left out.
ContextEntry(query, tool_calls) == [query |-> query, tool_calls |-> tool_calls]

\* Variant of DequeAppend: the deque is built without maxlen
DequeAppendUnbounded(d, e, maxlen) == Append(d, e)

\* Variant of DequeAppend: a full deque drops its rightmost item
DequeAppendDropNewest(d, e, maxlen) ==
    IF maxlen = 0 THEN d
    ELSE IF Len(d) >= maxlen THEN Append(SubSeq(d, 1, Len(d) - 1), e)
    ELSE Append(d, e)

\* deque(maxlen=n).append(e): a full deque drops its leftmost item first; a
\* deque of maxlen 0 stays empty.
DequeAppend(d, e, maxlen) ==
    IF maxlen = 0 THEN d
    ELSE IF Len(d) >= maxlen THEN Append(Tail(d), e)
    ELSE Append(d, e)

\* s[-n:] of a Python list
LastN(s, n) ==
    IF Len(s) <= n THEN s ELSE SubSeq(s, Len(s) - n + 1, Len(s))

\* sep.join(strs)
RECURSIVE Join(_, _)
Join(strs, sep) ==
    IF strs = <<>> THEN <<>>
    ELSE IF Len(strs) = 1 THEN strs[1]
    ELSE strs[1] \o sep \o Join(Tail(strs), sep)

QueryWindow == 3

\* Variant of get_combined_query: queries[:3] in place of queries[-3:]
get_combined_query_first(es) ==
    LET queries == [i \in 1..Len(es) |-> es[i].query]
    IN  IF queries # <<>>
        THEN Join(SubSeq(queries, 1, IF Len(queries) < QueryWindow THEN Len(queries)
                                     ELSE QueryWindow), <<SPACE>>)
        ELSE <<>>

\* Variant of get_combined_query: the tool calls of an entry are joined to its
\* query
get_combined_query_with_calls(es) ==
    LET queries == [i \in 1..Len(es) |-> es[i].query \o es[i].tool_calls]
    IN  IF queries # <<>> THEN Join(LastN(queries, QueryWindow), <<SPACE>>)
        ELSE <<>>

\* ConversationContextBuffer.get_combined_query
get_combined_query(es) ==
    LET queries == [i \in 1..Len(es) |-> es[i].query]
    IN  IF queries # <<>> THEN Join(LastN(queries, QueryWindow), <<SPACE>>)
        ELSE <<>>

\* Variant of get_recent_tool_calls: evicted entries are still read
get_recent_tool_calls_history(es) ==
    UNION { Range(added[i].tool_calls) : i \in 1..Len(added) }

\* ConversationContextBuffer.get_recent_tool_calls (as the set it collects)
get_recent_tool_calls(es) ==
    UNION { Range(es[i].tool_calls) : i \in 1..Len(es) }

\* The categories argument of search: None, or a list of category names
NoCategories == [given |-> FALSE, names |-> {}]
Categories(names) == [given |-> TRUE, names |-> names]

\* What an operation gave its caller: whether it raised, the tools, count or
\* text it returned, and (history) what the embedding backend did during the
\* call (and the ranking it answered with), the names and the categories of
\* the matches search handed back, and the query, k and categories arguments
\* of the search the call issued.
NoSearch ==
    [backend |-> "unasked", ranking |-> <<>>, matches |-> <<>>,
     categories |-> <<>>, query |-> <<>>, k |-> 0,
     wanted |-> NoCategories]

Outcome(op, raised, tools, n, text, sem) ==
    [op |-> op, raised |-> raised, tools |-> tools, n |-> n, text |-> text,
     backend |-> sem.backend, ranking |-> sem.ranking, matches |-> sem.matches,
     categories |-> sem.categories, query |-> sem.query, k |-> sem.k,
     wanted |-> sem.wanted]

NoResult == Outcome("init", FALSE, {}, 0, <<>>, NoSearch)

Returned(op, tools, n, text) == Outcome(op, FALSE, tools, n, text, NoSearch)

Raised(op) == Outcome(op, TRUE, {}, 0, <<>>, NoSearch)

\* ConversationContextBuffer.add
Add(query, tool_calls) ==
    /\ Len(added) < MaxAdds
    /\ entries' = DequeAppend(entries, ContextEntry(query, tool_calls), max_size)
    /\ added' = Append(added, ContextEntry(query, tool_calls))
    /\ result' = Returned("add", {}, 0, <<>>)
    /\ UNCHANGED <<search_failed, config_vars, engine_vars, ts_vars, original_reads>>

\* ConversationContextBuffer.clear
Clear ==
    /\ entries' = <<>>
    /\ added' = <<>>
    /\ result' = Returned("clear", {}, 0, <<>>)
    /\ UNCHANGED <<search_failed, config_vars, engine_vars, ts_vars, original_reads>>

\* a caller reading ConversationContextBuffer.get_combined_query
GetCombinedQuery ==
    /\ result' = Returned("get_combined_query", {}, 0, get_combined_query(entries))
    /\ UNCHANGED <<search_failed, config_vars, engine_vars, ts_vars, entries, added,
                   original_reads>>

\* a caller reading ConversationContextBuffer.get_recent_tool_calls
GetRecentToolCalls ==
    /\ result' = Returned("get_recent_tool_calls", get_recent_tool_calls(entries),
                          Cardinality(get_recent_tool_calls(entries)), <<>>)
    /\ UNCHANGED <<search_failed, config_vars, engine_vars, ts_vars, entries, added,
                   original_reads>>

\* a caller reading ConversationContextBuffer.size
Size ==
    /\ result' = Returned("size", {}, Len(entries), <<>>)
    /\ UNCHANGED <<search_failed, config_vars, engine_vars, ts_vars, entries, added,
                   original_reads>>

\* A buffer on its own: ConversationContextBuffer(max_size)
InitBuffer ==
    /\ max_size \in 1..MaxBufferSize
    /\ entries = <<>>
    /\ added = <<>>
    /\ result = NoResult
    /\ small_model_mode = NONE
    /\ small_model_max_tools = 1
    /\ small_model_pinned_tools = {}
    /\ host_tools = {}
    /\ list_tools_attr = "original"
    /\ all_tools = {}
    /\ original_list_tools = "None"
    /\ installed = FALSE
    /\ toolscope = "None"
    /\ ts_initialized = FALSE
    /\ ts_index = NoIndex
    /\ ts_tool_metadata = {}
    /\ ts_config = HttpConfig
    /\ original_reads = 0
    /\ search_failed = FALSE

NextBuffer ==
    \/ \E q \in Queries, tc \in ToolCalls : Add(q, tc)
    \/ Clear
    \/ GetCombinedQuery
    \/ GetRecentToolCalls
    \/ Size

SpecBuffer == InitBuffer /\ [][NextBuffer]_vars

(***************************************************************************)
(* ToolScopeManager._infer_category                                        *)
(***************************************************************************)
\* Tool names are identified by a string; Spelling gives the characters of a
\* name, which is what the substring tests of _infer_category read.
ToolNames ==
    { "train",
      "prepare_training",
      "get_training_progress",
      "train_model",
      "deploy_model",
      "Deploy_Model",
      "model_storage",
      "list_workbenches",
      "create_notebook",
      "create_storage",
      "pvc_status",
      "create_s3_connection",
      "run_pipeline",
      "project_summary",
      "cluster_summary",
      "explore_cluster",
      "list_resources",
      "unknown_tool",
      "nonexistent_tool",
      "" }

Spelling ==
    ("train" :> <<"t", "r", "a", "i", "n">>) @@
    ("prepare_training" :> <<"p", "r", "e", "p", "a", "r", "e", "_", "t", "r", "a", "i", "n", "i", "n", "g">>) @@
    ("get_training_progress" :> <<"g", "e", "t", "_", "t", "r", "a", "i", "n", "i", "n", "g", "_", "p", "r", "o", "g", "r", "e", "s", "s">>) @@
    ("train_model" :> <<"t", "r", "a", "i", "n", "_", "m", "o", "d", "e", "l">>) @@
    ("deploy_model" :> <<"d", "e", "p", "l", "o", "y", "_", "m", "o", "d", "e", "l">>) @@
    ("Deploy_Model" :> <<"D", "e", "p", "l", "o", "y", "_", "M", "o", "d", "e", "l">>) @@
    ("model_storage" :> <<"m", "o", "d", "e", "l", "_", "s", "t", "o", "r", "a", "g", "e">>) @@
    ("list_workbenches" :> <<"l", "i", "s", "t", "_", "w", "o", "r", "k", "b", "e", "n", "c", "h", "e", "s">>) @@
    ("create_notebook" :> <<"c", "r", "e", "a", "t", "e", "_", "n", "o", "t", "e", "b", "o", "o", "k">>) @@
    ("create_storage" :> <<"c", "r", "e", "a", "t", "e", "_", "s", "t", "o", "r", "a", "g", "e">>) @@
    ("pvc_status" :> <<"p", "v", "c", "_", "s", "t", "a", "t", "u", "s">>) @@
    ("create_s3_connection" :> <<"c", "r", "e", "a", "t", "e", "_", "s", "3", "_", "c", "o", "n", "n", "e", "c", "t", "i", "o", "n">>) @@
    ("run_pipeline" :> <<"r", "u", "n", "_", "p", "i", "p", "e", "l", "i", "n", "e">>) @@
    ("project_summary" :> <<"p", "r", "o", "j", "e", "c", "t", "_", "s", "u", "m", "m", "a", "r", "y">>) @@
    ("cluster_summary" :> <<"c", "l", "u", "s", "t", "e", "r", "_", "s", "u", "m", "m", "a", "r", "y">>) @@
    ("explore_cluster" :> <<"e", "x", "p", "l", "o", "r", "e", "_", "c", "l", "u", "s", "t", "e", "r">>) @@
    ("list_resources" :> <<"l", "i", "s", "t", "_", "r", "e", "s", "o", "u", "r", "c", "e", "s">>) @@
    ("unknown_tool" :> <<"u", "n", "k", "n", "o", "w", "n", "_", "t", "o", "o", "l">>) @@
    ("nonexistent_tool" :> <<"n", "o", "n", "e", "x", "i", "s", "t", "e", "n", "t", "_", "t", "o", "o", "l">>) @@
    ("" :> <<>>)

\* str.lower() on the characters that occur in tool names
UpperCase == ("D" :> "d") @@ ("M" :> "m")

lower(text) ==
    [i \in 1..Len(text) |->
        IF text[i] \in DOMAIN UpperCase THEN UpperCase[text[i]] ELSE text[i]]

\* p in text, for Python strings
Contains(p, text) ==
    \E i \in 0..(Len(text) - Len(p)) : SubSeq(text, i + 1, i + Len(p)) = p

\* category_patterns, in the insertion order its items() are iterated in
category_patterns == <<
    [category |-> "training",
     patterns |-> <<<<"t", "r", "a", "i", "n">>,
                    <<"p", "r", "e", "p", "a", "r", "e", "_", "t", "r", "a", "i", "n", "i", "n", "g">>,
                    <<"g", "e", "t", "_", "t", "r", "a", "i", "n", "i", "n", "g">>>>],
    [category |-> "inference",
     patterns |-> <<<<"d", "e", "p", "l", "o", "y">>,
                    <<"m", "o", "d", "e", "l">>,
                    <<"e", "n", "d", "p", "o", "i", "n", "t">>,
                    <<"s", "e", "r", "v", "e">>>>],
    [category |-> "workbenches",
     patterns |-> <<<<"w", "o", "r", "k", "b", "e", "n", "c", "h">>,
                    <<"n", "o", "t", "e", "b", "o", "o", "k">>>>],
    [category |-> "storage",
     patterns |-> <<<<"s", "t", "o", "r", "a", "g", "e">>,
                    <<"p", "v", "c">>,
                    <<"v", "o", "l", "u", "m", "e">>>>],
    [category |-> "connections",
     patterns |-> <<<<"c", "o", "n", "n", "e", "c", "t", "i", "o", "n">>,
                    <<"s", "3">>,
                    <<"d", "a", "t", "a", "_", "c", "o", "n", "n", "e", "c", "t", "i", "o", "n">>>>],
    [category |-> "pipelines",
     patterns |-> <<<<"p", "i", "p", "e", "l", "i", "n", "e">>>>],
    [category |-> "projects",
     patterns |-> <<<<"p", "r", "o", "j", "e", "c", "t">>>>],
    [category |-> "discovery",
     patterns |-> <<<<"c", "l", "u", "s", "t", "e", "r">>,
                    <<"e", "x", "p", "l", "o", "r", "e">>,
                    <<"s", "u", "m", "m", "a", "r", "y">>,
                    <<"l", "i", "s", "t">>>>] >>

\* Variant of infer_category: the last category with a matching pattern wins
RECURSIVE infer_category_last_match(_, _)
infer_category_last_match(tool_name, table) ==
    IF table = <<>> THEN "other"
    ELSE LET last == table[Len(table)]
         IN  IF \E p \in Range(last.patterns) : Contains(p, lower(Spelling[tool_name]))
             THEN last.category
             ELSE infer_category_last_match(tool_name, SubSeq(table, 1, Len(table) - 1))

\* ToolScopeManager._infer_category: the loop over the items of the table
\* that are still to be tried
RECURSIVE infer_category(_, _)
infer_category(tool_name, table) ==
    IF table = <<>> THEN "other"
    ELSE IF \E p \in Range(Head(table).patterns) : Contains(p, lower(Spelling[tool_name]))
         THEN Head(table).category
         ELSE infer_category(tool_name, Tail(table))

\* self._infer_category(name) for every tool name
Category == [tool_name \in ToolNames |-> infer_category(tool_name, category_patterns)]

\* ToolMatch(name, description, score, category, tags) built at lines 165-173;
\* description, score and tags are copied from the backend's answer and read
\* by no operation here.
ToolMatch(name) == [name |-> name, category |-> Category[name]]

(***************************************************************************)
(* ToolScopeManager.search                                                 *)
(***************************************************************************)
\* What self._index.filter(messages=query, k=k) can do: raise, or return at
\* most k tools, ranked.  The backend is external; every ranking is possible.
\* The rankings explored are those that name no tool twice and those that
\* repeat one tool.
RankedAnswers ==
    { r \in UNION { [1..n -> MatchNames] : n \in 0..MaxMatches } :
        \/ \A i, j \in 1..Len(r) : r[i] = r[j] => i = j
        \/ \A i, j \in 1..Len(r) : r[i] = r[j] }

BackendAnswers(k) ==
    {[raised |-> TRUE, tools |-> <<>>]} \cup
    {[raised |-> FALSE, tools |-> t] : t \in {r \in RankedAnswers : Len(r) <= k}}

\* [m for m in matches if m.category in categories]
RECURSIVE SelectCategories(_, _)
SelectCategories(matches, names) ==
    IF matches = <<>> THEN <<>>
    ELSE IF Head(matches).category \in names
         THEN <<Head(matches)>> \o SelectCategories(Tail(matches), names)
         ELSE SelectCategories(Tail(matches), names)

\* Variant of ToolScopeSearch: the test of lines 151-152 is left out
ToolScopeSearchNoReadyTest(query, k, categories, answer) ==
    IF answer.raised
    THEN [raised |-> FALSE, matches |-> <<>>, backend |-> "failed"]
    ELSE LET matches == [i \in 1..Len(answer.tools) |-> ToolMatch(answer.tools[i])]
         IN  IF categories.given /\ categories.names # {}
             THEN [raised |-> FALSE, backend |-> "answered",
                   matches |-> SelectCategories(matches, categories.names)]
             ELSE [raised |-> FALSE, backend |-> "answered", matches |-> matches]

\* Variant of ToolScopeSearch: the backend call is not wrapped in try/except
ToolScopeSearchUnguarded(query, k, categories, answer) ==
    IF ~ts_initialized \/ ~ts_index.built
    THEN [raised |-> FALSE, matches |-> <<>>, backend |-> "unasked"]
    ELSE IF answer.raised
    THEN [raised |-> TRUE, matches |-> <<>>, backend |-> "failed"]
    ELSE LET matches == [i \in 1..Len(answer.tools) |-> ToolMatch(answer.tools[i])]
         IN  IF categories.given /\ categories.names # {}
             THEN [raised |-> FALSE, backend |-> "answered",
                   matches |-> SelectCategories(matches, categories.names)]
             ELSE [raised |-> FALSE, backend |-> "answered", matches |-> matches]

\* ToolScopeManager.search(query, k, categories), given the answer of the
\* backend: not READY gives [], an exception in the try block (raised by the
\* backend call or by reading a malformed result) gives [], a list of
\* categories that is None or empty leaves the matches as they are.
\* backend: whether self._index.filter was called, and how it ended.
ToolScopeSearch(query, k, categories, answer) ==
    IF ~ts_initialized \/ ~ts_index.built
    THEN [raised |-> FALSE, matches |-> <<>>, backend |-> "unasked"]
    ELSE IF answer.raised
    THEN [raised |-> FALSE, matches |-> <<>>, backend |-> "failed"]
    ELSE LET matches == [i \in 1..Len(answer.tools) |-> ToolMatch(answer.tools[i])]
         IN  IF categories.given /\ categories.names # {}
             THEN [raised |-> FALSE, backend |-> "answered",
                   matches |-> SelectCategories(matches, categories.names)]
             ELSE [raised |-> FALSE, backend |-> "answered", matches |-> matches]

\* Variant of search: the backend call is not wrapped in try/except
search_unguarded(query, k, answer) ==
    IF ~ts_initialized \/ ~ts_index.built
    THEN [raised |-> FALSE, matches |-> <<>>, categories |-> <<>>]
    ELSE IF answer.raised THEN [raised |-> TRUE, matches |-> <<>>, categories |-> <<>>]
    ELSE [raised |-> FALSE, matches |-> answer.tools,
          categories |-> [i \in 1..Len(answer.tools) |-> ToolMatch(answer.tools[i]).category]]

\* self._toolscope.search(query, k=k) as the engine calls it, categories=None:
\* the names and the categories of the matches it returns
search(query, k, answer) ==
    LET found == ToolScopeSearch(query, k, NoCategories, answer)
    IN  [raised |-> found.raised,
         matches |-> [i \in 1..Len(found.matches) |-> found.matches[i].name],
         categories |-> [i \in 1..Len(found.matches) |-> found.matches[i].category]]

(***************************************************************************)
(* SmallModelOptimizer                                                     *)
(***************************************************************************)
\* Variant of AddMatches: the loop has no break
RECURSIVE AddMatchesNoBreak(_, _, _)
AddMatchesNoBreak(visible_names, matches, max_tools) ==
    IF matches = <<>> THEN visible_names
    ELSE IF Head(matches) \notin visible_names /\ Head(matches) \in all_tools
         THEN AddMatchesNoBreak(visible_names \cup {Head(matches)}, Tail(matches), max_tools)
         ELSE AddMatchesNoBreak(visible_names, Tail(matches), max_tools)

\* manager.py 113-117: the loop over matches, with its break
RECURSIVE AddMatches(_, _, _)
AddMatches(visible_names, matches, max_tools) ==
    IF matches = <<>> THEN visible_names
    ELSE IF Head(matches) \notin visible_names /\ Head(matches) \in all_tools
         THEN IF Cardinality(visible_names \cup {Head(matches)}) >= max_tools
              THEN visible_names \cup {Head(matches)}
              ELSE AddMatches(visible_names \cup {Head(matches)}, Tail(matches), max_tools)
         ELSE AddMatches(visible_names, Tail(matches), max_tools)

\* Variant of AddDefaults: the loop has no break
RECURSIVE AddDefaultsNoBreak(_, _, _)
AddDefaultsNoBreak(visible_names, names, max_tools) ==
    IF names = <<>> THEN visible_names
    ELSE IF Head(names) \in all_tools /\ Head(names) \notin visible_names
         THEN AddDefaultsNoBreak(visible_names \cup {Head(names)}, Tail(names), max_tools)
         ELSE AddDefaultsNoBreak(visible_names, Tail(names), max_tools)

\* manager.py 122-126: the loop over defaults, with its break
RECURSIVE AddDefaults(_, _, _)
AddDefaults(visible_names, names, max_tools) ==
    IF names = <<>> THEN visible_names
    ELSE IF Head(names) \in all_tools /\ Head(names) \notin visible_names
         THEN IF Cardinality(visible_names \cup {Head(names)}) >= max_tools
              THEN visible_names \cup {Head(names)}
              ELSE AddDefaults(visible_names \cup {Head(names)}, Tail(names), max_tools)
         ELSE AddDefaults(visible_names, Tail(names), max_tools)

\* Variant of PinnedVisible: pinned tools are added only up to max_tools
PinnedVisibleCapped ==
    LET present == { name \in small_model_pinned_tools : name \in all_tools }
    IN  IF Cardinality(present) <= small_model_max_tools THEN present
        ELSE CHOOSE kept \in SUBSET present : Cardinality(kept) = small_model_max_tools

\* manager.py 93-99
PinnedVisible == { name \in small_model_pinned_tools : name \in all_tools }

\* manager.py 107
Remaining == small_model_max_tools - Cardinality(PinnedVisible)

\* Variant of SearchIssued: the combined query is not tested before the search
SearchIssuedAnyQuery ==
    /\ Remaining > 0
    /\ toolscope # "None"
    /\ ts_initialized

\* manager.py 109-111: whether the semantic step calls search
SearchIssued ==
    /\ Remaining > 0
    /\ toolscope # "None"
    /\ ts_initialized
    /\ get_combined_query(entries) # <<>>

\* manager.py 101-103 and the else branches of 109 and 111: no search
NoSemantic ==
    [raised |-> FALSE, names |-> PinnedVisible,
     backend |-> "unasked", ranking |-> <<>>, matches |-> <<>>,
     categories |-> <<>>, query |-> <<>>, k |-> 0, wanted |-> NoCategories]

\* manager.py 109-117
AfterSemantic(answer) ==
    IF SearchIssued
    THEN LET query == get_combined_query(entries)
             k == Remaining + 5
             found == search(query, k, answer)
             backend == IF answer.raised THEN "failed" ELSE "answered"
         IN  IF found.raised
             THEN [raised |-> TRUE, names |-> PinnedVisible,
                   backend |-> backend, ranking |-> answer.tools, matches |-> <<>>,
                   categories |-> <<>>, query |-> query, k |-> k,
                   wanted |-> NoCategories]
             ELSE [raised |-> FALSE,
                   names |-> AddMatches(PinnedVisible, found.matches, small_model_max_tools),
                   backend |-> backend, ranking |-> answer.tools,
                   matches |-> found.matches, categories |-> found.categories,
                   query |-> query, k |-> k, wanted |-> NoCategories]
    ELSE NoSemantic

\* Variant of AfterDefaults: the loop over defaults runs whatever the count is
AfterDefaultsUnguarded(visible_names) ==
    AddDefaults(visible_names, defaults, small_model_max_tools)

\* manager.py 119-126
AfterDefaults(visible_names) ==
    IF Cardinality(visible_names) < small_model_max_tools
    THEN AddDefaults(visible_names, defaults, small_model_max_tools)
    ELSE visible_names

Listed(raised, names, reads, sem) ==
    [raised |-> raised, names |-> names, reads |-> reads,
     backend |-> sem.backend, ranking |-> sem.ranking, matches |-> sem.matches,
     categories |-> sem.categories, query |-> sem.query, k |-> sem.k,
     wanted |-> sem.wanted]

\* Variant of filtered_list_tools: MINIMAL falls through to the defaults
filtered_list_tools_minimal_defaults(answer) ==
    IF small_model_mode = NONE
    THEN IF original_list_tools = "None" THEN Listed(FALSE, {}, 0, NoSearch)
         ELSE IF original_list_tools = "original" THEN Listed(FALSE, host_tools, 1, NoSearch)
         ELSE Listed(TRUE, {}, 0, NoSearch)
    ELSE LET sem == IF small_model_mode = MINIMAL
                    THEN NoSemantic
                    ELSE AfterSemantic(answer)
             visible_names == AfterDefaults(sem.names)
         IN  IF sem.raised THEN Listed(TRUE, {}, 0, sem)
             ELSE Listed(FALSE, { name \in visible_names : name \in all_tools }, 0, sem)

\* Variant of filtered_list_tools: the host is enumerated again on every call
filtered_list_tools_refetch(answer) ==
    IF small_model_mode = NONE
    THEN IF original_list_tools = "None" THEN Listed(FALSE, {}, 0, NoSearch)
         ELSE IF original_list_tools = "original" THEN Listed(FALSE, host_tools, 1, NoSearch)
         ELSE Listed(TRUE, {}, 0, NoSearch)
    ELSE LET sem == IF small_model_mode = MINIMAL
                    THEN NoSemantic
                    ELSE AfterSemantic(answer)
             visible_names == IF small_model_mode = MINIMAL THEN sem.names
                              ELSE AfterDefaults(sem.names)
         IN  IF sem.raised THEN Listed(TRUE, {}, 0, sem)
             ELSE Listed(FALSE, { name \in visible_names : name \in host_tools }, 1, sem)

\* Variant of filtered_list_tools: the pinned names are shown without being
\* looked up in the cached catalog
filtered_list_tools_unchecked(answer) ==
    IF small_model_mode = NONE
    THEN IF original_list_tools = "None" THEN Listed(FALSE, {}, 0, NoSearch)
         ELSE IF original_list_tools = "original" THEN Listed(FALSE, host_tools, 1, NoSearch)
         ELSE Listed(TRUE, {}, 0, NoSearch)
    ELSE LET sem == IF small_model_mode = MINIMAL
                    THEN NoSemantic
                    ELSE AfterSemantic(answer)
             visible_names == IF small_model_mode = MINIMAL THEN sem.names
                              ELSE AfterDefaults(sem.names)
         IN  IF sem.raised THEN Listed(TRUE, {}, 0, sem)
             ELSE Listed(FALSE, visible_names \cup small_model_pinned_tools, 0, sem)

\* SmallModelOptimizer._filtered_list_tools, given the answer the backend
\* gives if it is asked.  reads: calls of the host's original enumeration.
\* In mode NONE a stored enumerator that is the filter itself never returns.
filtered_list_tools(answer) ==
    IF small_model_mode = NONE
    THEN IF original_list_tools = "None" THEN Listed(FALSE, {}, 0, NoSearch)
         ELSE IF original_list_tools = "original" THEN Listed(FALSE, host_tools, 1, NoSearch)
         ELSE Listed(TRUE, {}, 0, NoSearch)
    ELSE LET sem == IF small_model_mode = MINIMAL
                    THEN NoSemantic
                    ELSE AfterSemantic(answer)
             visible_names == IF small_model_mode = MINIMAL THEN sem.names
                              ELSE AfterDefaults(sem.names)
         IN  IF sem.raised THEN Listed(TRUE, {}, 0, sem)
             ELSE Listed(FALSE, { name \in visible_names : name \in all_tools }, 0, sem)

\* The answers worth distinguishing in the current state
Answers == IF small_model_mode \in {MODERATE, AGGRESSIVE} /\ SearchIssued
           THEN BackendAnswers(Remaining + 5)
           ELSE {[raised |-> FALSE, tools |-> <<>>]}

\* The answers worth distinguishing when mcp._tool_manager.list_tools is called
ListAnswers == IF list_tools_attr = "filtered" THEN Answers
               ELSE {[raised |-> FALSE, tools |-> <<>>]}

\* mcp._tool_manager.list_tools(), whatever it is bound to
tool_manager_list_tools(answer) ==
    IF list_tools_attr = "original"
    THEN Listed(FALSE, host_tools, 0, NoSearch)
    ELSE filtered_list_tools(answer)

\* The distinct results mcp._tool_manager.list_tools() can give in this state
HostListings ==
    { Listed(l.raised, l.names, l.reads, NoSearch) :
        l \in { tool_manager_list_tools(answer) : answer \in ListAnswers } } \cup {}

\* The distinct results _filtered_list_tools() can give in this state
FilterListings == { filtered_list_tools(answer) : answer \in Answers } \cup {}

\* SmallModelOptimizer.install
Install ==
    /\ IF small_model_mode = NONE
       THEN /\ result' = Returned("install", {}, 0, <<>>)
            /\ UNCHANGED <<engine_vars, original_reads>>
       ELSE \E listed \in HostListings :
                IF listed.raised
                THEN /\ result' = Raised("install")
                     /\ UNCHANGED <<engine_vars, original_reads>>
                ELSE /\ all_tools' = all_tools \cup listed.names
                     /\ original_list_tools' = list_tools_attr
                     /\ list_tools_attr' = "filtered"
                     /\ installed' = TRUE
                     /\ original_reads' = original_reads + listed.reads +
                            (IF list_tools_attr = "original" THEN 1 ELSE 0)
                     /\ result' = Returned("install", {}, 0, <<>>)
    /\ UNCHANGED <<search_failed, config_vars, ts_vars, entries, added>>

\* Variant of FilteredListTools: the call uses up the recorded context
FilteredListToolsConsumes ==
    /\ \E listed \in FilterListings :
        /\ result' = Outcome("filtered_list_tools", listed.raised, listed.names,
                             Cardinality(listed.names), <<>>, listed)
        /\ original_reads' = original_reads + listed.reads
    /\ entries' = <<>>
    /\ added' = <<>>
    /\ UNCHANGED <<search_failed, config_vars, engine_vars, ts_vars>>

\* A call of SmallModelOptimizer._filtered_list_tools: through the host's
\* replaced list_tools entry point, or directly.
FilteredListTools ==
    /\ \E listed \in FilterListings :
        /\ result' = Outcome("filtered_list_tools", listed.raised, listed.names,
                             Cardinality(listed.names), <<>>, listed)
        /\ original_reads' = original_reads + listed.reads
    /\ UNCHANGED <<search_failed, config_vars, engine_vars, ts_vars, entries, added>>

\* A client call of the host's list_tools while it is still the host's own
HostListTools ==
    /\ list_tools_attr = "original"
    /\ result' = Returned("host_list_tools", host_tools, Cardinality(host_tools), <<>>)
    /\ UNCHANGED <<search_failed, config_vars, engine_vars, ts_vars, entries, added,
                   original_reads>>

\* Variant of record_context: the new entry is put in front of the older ones
record_context_newest_first(query, tool_calls) ==
    /\ entries' = LastN(<<ContextEntry(query, tool_calls)>> \o entries, max_size)
    /\ added' = Append(added, ContextEntry(query, tool_calls))

\* manager.py 131-139: what SmallModelOptimizer.record_context does to the
\* buffer
record_context(query, tool_calls) ==
    /\ entries' = DequeAppend(entries, ContextEntry(query, tool_calls), max_size)
    /\ added' = Append(added, ContextEntry(query, tool_calls))

\* A call of SmallModelOptimizer.record_context
RecordContext(query, tool_calls) ==
    /\ Len(added) < MaxRecords
    /\ record_context(query, tool_calls)
    /\ result' = Returned("record_context", {}, 0, <<>>)
    /\ UNCHANGED <<search_failed, config_vars, engine_vars, ts_vars, original_reads>>

\* SmallModelOptimizer.get_visible_tool_count
GetVisibleToolCount ==
    /\ \E listed \in { Listed(l.raised, l.names, l.reads, NoSearch) : l \in FilterListings } \cup {} :
        /\ result' = Outcome("get_visible_tool_count", listed.raised, {},
                             Cardinality(listed.names), <<>>, NoSearch)
        /\ original_reads' = original_reads + listed.reads
    /\ UNCHANGED <<search_failed, config_vars, engine_vars, ts_vars, entries, added>>

\* SmallModelOptimizer.get_total_tool_count and get_all_tool_names
GetTotalToolCount ==
    /\ result' = Returned("get_total_tool_count", all_tools, Cardinality(all_tools), <<>>)
    /\ UNCHANGED <<search_failed, config_vars, engine_vars, ts_vars, entries, added,
                   original_reads>>

(***************************************************************************)
(* ToolScopeManager.initialize                                             *)
(***************************************************************************)
\* Variant of create_embedder: the http embedder is made without testing the URL
create_embedder_any_url(load_ok) ==
    IF ts_config.type = "disabled" THEN [raised |-> FALSE, embedder |-> "None"]
    ELSE IF ts_config.type = "sentence-transformers"
    THEN IF load_ok THEN [raised |-> FALSE, embedder |-> "SentenceTransformerEmbedder"]
         ELSE [raised |-> TRUE, embedder |-> "None"]
    ELSE IF ts_config.type = "http"
    THEN [raised |-> FALSE, embedder |-> "EmbeddingConfig"]
    ELSE [raised |-> FALSE, embedder |-> "None"]

\* ToolScopeManager._create_embedder: "None", an embedder, or an exception
\* when the sentence-transformers model fails to load (load_ok = FALSE).
create_embedder(load_ok) ==
    IF ts_config.type = "disabled" THEN [raised |-> FALSE, embedder |-> "None"]
    ELSE IF ts_config.type = "sentence-transformers"
    THEN IF load_ok THEN [raised |-> FALSE, embedder |-> "SentenceTransformerEmbedder"]
         ELSE [raised |-> TRUE, embedder |-> "None"]
    ELSE IF ts_config.type = "http"
    THEN IF ts_config.url = "" THEN [raised |-> FALSE, embedder |-> "None"]
         ELSE [raised |-> FALSE, embedder |-> "EmbeddingConfig"]
    ELSE [raised |-> FALSE, embedder |-> "None"]

\* What the embedding model and toolscope.index can do, as far as the
\* configuration lets initialize reach them
InitializeOutcomes ==
    { [load_ok |-> l, build_ok |-> b] : l \in BOOLEAN, b \in BOOLEAN } \
    { o \in [load_ok : BOOLEAN, build_ok : BOOLEAN] :
        \/ ~o.load_ok /\ ~o.build_ok
        \/ ~o.load_ok /\ (~ts_config.enabled \/ ts_config.type # "sentence-transformers")
        \/ ~o.build_ok /\ (~ts_config.enabled \/ create_embedder(TRUE).embedder = "None") }

\* ToolScopeManager.initialize(mcp); load_ok and build_ok are what the
\* embedding model and toolscope.index do when they are reached.
TsInitialize(load_ok, build_ok) ==
    /\ toolscope = "manager"
    /\ IF ~ts_config.enabled
       THEN /\ result' = Returned("initialize", {}, 0, <<>>)
            /\ UNCHANGED <<ts_vars, original_reads>>
       ELSE \E listed \in HostListings :
            LET made == create_embedder(load_ok)
            IN  IF listed.raised
                THEN /\ result' = Raised("initialize")
                     /\ UNCHANGED <<ts_vars, original_reads>>
                ELSE /\ ts_tool_metadata' = ts_tool_metadata \cup listed.names
                     /\ original_reads' = original_reads + listed.reads
                     /\ IF listed.names = {}
                        THEN /\ result' = Returned("initialize", {}, 0, <<>>)
                             /\ UNCHANGED <<ts_initialized, ts_index>>
                        ELSE IF made.raised
                        THEN /\ result' = Raised("initialize")
                             /\ UNCHANGED <<ts_initialized, ts_index>>
                        ELSE IF made.embedder = "None" \/ ~build_ok
                        THEN /\ result' = Returned("initialize", {}, 0, <<>>)
                             /\ UNCHANGED <<ts_initialized, ts_index>>
                        ELSE /\ ts_index' = Index(listed.names)
                             /\ ts_initialized' = TRUE
                             /\ result' = Returned("initialize", {}, 0, <<>>)
    /\ UNCHANGED <<search_failed, config_vars, engine_vars, entries, added>>

(***************************************************************************)
(* The engine with its buffer, its host and its semantic index             *)
(***************************************************************************)
\* The host catalogs explored
Catalogs == { {},
              {"train", "explore_cluster"},
              {"train", "cluster_summary", "project_summary"},
              CatalogNames }

Init ==
    /\ small_model_mode \in SmallModelMode
    /\ small_model_max_tools \in 1..MaxTools
    /\ small_model_pinned_tools \in PinnedSets
    /\ max_size = MaxContextSize
    /\ host_tools \in Catalogs
    /\ toolscope \in {"None", "manager"}
    /\ ts_config \in EngineTsConfigs
    /\ entries = <<>>
    /\ added = <<>>
    /\ list_tools_attr = "original"
    /\ all_tools = {}
    /\ original_list_tools = "None"
    /\ installed = FALSE
    /\ ts_initialized = FALSE
    /\ ts_index = NoIndex
    /\ ts_tool_metadata = {}
    /\ result = NoResult
    /\ original_reads = 0
    /\ search_failed = FALSE

Next ==
    \/ Install
    \/ FilteredListTools
    \/ HostListTools
    \/ \E q \in EngineQueries : RecordContext(q, <<>>)
    \/ Clear
    \/ GetVisibleToolCount
    \/ GetTotalToolCount
    \/ \E outcome \in InitializeOutcomes : TsInitialize(outcome.load_ok, outcome.build_ok)

Spec == Init /\ [][Next]_vars

(***************************************************************************)
(* The semantic index on its own                                           *)
(***************************************************************************)
toolscope_default_k == 5

\* The k, categories and tool-name arguments explored; k = 0 stands for the
\* falsy values None and 0, which line 154 replaces by toolscope_default_k
SearchKs == {0, 1, MaxMatches}
SearchCategories == { NoCategories, Categories({}), Categories({"training"}),
                      Categories({"training", "discovery"}), Categories({"other"}) }

\* The answers worth distinguishing when search is called with k: without an
\* index there is no backend to answer
SearchAnswers(k) == IF ts_index.built THEN BackendAnswers(k)
                    ELSE {[raised |-> FALSE, tools |-> <<>>]}

\* Variant of Search: a failing query marks the manager as not initialized
SearchMarksFailure(query, k, categories) ==
    /\ toolscope = "manager"
    /\ LET asked == IF k = 0 THEN toolscope_default_k ELSE k
       IN  \E answer \in SearchAnswers(asked) :
             LET found == ToolScopeSearch(query, asked, categories, answer)
                 called == found.backend # "unasked"
                 names == [i \in 1..Len(found.matches) |-> found.matches[i].name]
             IN  /\ result' = Outcome("search", found.raised, Range(names),
                                      Len(found.matches), <<>>,
                        [backend |-> found.backend,
                         ranking |-> IF called THEN answer.tools ELSE <<>>,
                         matches |-> names,
                         categories |-> [i \in 1..Len(found.matches) |->
                                            found.matches[i].category],
                         query |-> query,
                         k |-> IF called THEN asked ELSE 0,
                         wanted |-> categories])
                 /\ search_failed' = (search_failed \/ found.backend = "failed")
                 /\ ts_initialized' = (ts_initialized /\ found.backend # "failed")
    /\ UNCHANGED <<config_vars, engine_vars, ts_index, ts_tool_metadata, ts_config,
                   toolscope, entries, added, original_reads>>

\* A call of ToolScopeManager.search(query, k, categories) from outside the
\* engine
Search(query, k, categories) ==
    /\ toolscope = "manager"
    /\ LET asked == IF k = 0 THEN toolscope_default_k ELSE k
       IN  \E answer \in SearchAnswers(asked) :
             LET found == ToolScopeSearch(query, asked, categories, answer)
                 called == found.backend # "unasked"
                 names == [i \in 1..Len(found.matches) |-> found.matches[i].name]
             IN  /\ result' = Outcome("search", found.raised, Range(names),
                                      Len(found.matches), <<>>,
                        [backend |-> found.backend,
                         ranking |-> IF called THEN answer.tools ELSE <<>>,
                         matches |-> names,
                         categories |-> [i \in 1..Len(found.matches) |->
                                            found.matches[i].category],
                         query |-> query,
                         k |-> IF called THEN asked ELSE 0,
                         wanted |-> categories])
                 /\ search_failed' = (search_failed \/ found.backend = "failed")
    /\ UNCHANGED <<config_vars, engine_vars, ts_vars, entries, added,
                   original_reads>>

\* toolscope/manager.py 57-60: ToolScopeManager.tool_count
tool_count == Cardinality(ts_tool_metadata)

\* A call of ToolScopeManager._infer_category(tool_name)
InferCategory(tool_name) ==
    /\ toolscope = "manager"
    /\ result' = Outcome("infer_category", FALSE, {}, 0, <<>>,
                         [NoSearch EXCEPT
                            !.matches = <<tool_name>>,
                            !.categories = <<infer_category(tool_name, category_patterns)>>])
    /\ UNCHANGED <<search_failed, config_vars, engine_vars, ts_vars, entries,
                   added, original_reads>>

\* The host catalogs explored with the manager on its own
ToolScopeCatalogs == { {}, {"train", "explore_cluster"} }

\* A manager on its own: ToolScopeManager(config), with a host whose
\* list_tools is its own
InitToolScope ==
    /\ ts_config \in TsConfigs
    /\ host_tools \in ToolScopeCatalogs
    /\ toolscope = "manager"
    /\ ts_initialized = FALSE
    /\ ts_index = NoIndex
    /\ ts_tool_metadata = {}
    /\ result = NoResult
    /\ search_failed = FALSE
    /\ small_model_mode = NONE
    /\ small_model_max_tools = 1
    /\ small_model_pinned_tools = {}
    /\ max_size = 1
    /\ entries = <<>>
    /\ added = <<>>
    /\ list_tools_attr = "original"
    /\ all_tools = {}
    /\ original_list_tools = "None"
    /\ installed = FALSE
    /\ original_reads = 0

NextToolScope ==
    \/ \E outcome \in InitializeOutcomes : TsInitialize(outcome.load_ok, outcome.build_ok)
    \/ \E q \in EngineQueries, k \in SearchKs, c \in SearchCategories : Search(q, k, c)
    \/ \E tool_name \in ToolNames : InferCategory(tool_name)

SpecToolScope == InitToolScope /\ [][NextToolScope]_vars

(***************************************************************************)
(* A session against a started server: suggest_tools and record_context    *)
(* feed the buffer, list_tools reads it                                    *)
(***************************************************************************)

\* meta/tools.py 269: manager.search(intent, k=5)
suggest_k == 5

\* The intents and queries of a session: two texts that can be told apart
SessionQueries == { <<"a">>, <<"b">> }

\* meta/tools.py 153-163: _record_optimizer_context.  The optimizer plugin
\* holds an optimizer once its post-registration hook has run in a mode other
\* than NONE; the intent is recorded with no tool calls.
record_optimizer_context(intent) ==
    IF installed
    THEN record_context(intent, <<>>)
    ELSE UNCHANGED <<entries, added>>

\* meta/tools.py 265-269: the semantic attempt of suggest_tools
suggest_tools_search(intent, answer) ==
    IF toolscope # "None" /\ ts_initialized
    THEN ToolScopeSearch(intent, suggest_k, NoCategories, answer)
    ELSE [raised |-> FALSE, matches |-> <<>>, backend |-> "unasked"]

\* The backend answers worth distinguishing when suggest_tools is called
SuggestAnswers == IF toolscope # "None" /\ ts_initialized /\ ts_index.built
                  THEN BackendAnswers(suggest_k)
                  ELSE {[raised |-> FALSE, tools |-> <<>>]}

\* Variant of SuggestTools: the intent is recorded after the semantic return,
\* so only the keyword return path records it
SuggestToolsRecordsLate(intent) ==
    /\ Len(added) < MaxAdds
    /\ \E answer \in SuggestAnswers :
         LET found == suggest_tools_search(intent, answer)
             called == found.backend # "unasked"
             names == [i \in 1..Len(found.matches) |-> found.matches[i].name]
         IN  /\ result' = Outcome("suggest_tools", found.raised,
                                  { names[i] : i \in 1..(IF Len(names) < 3
                                                         THEN Len(names) ELSE 3) },
                                  Len(names), intent,
                        [backend |-> found.backend,
                         ranking |-> IF called THEN answer.tools ELSE <<>>,
                         matches |-> names,
                         categories |-> [i \in 1..Len(found.matches) |->
                                            found.matches[i].category],
                         query |-> intent,
                         k |-> IF called THEN suggest_k ELSE 0,
                         wanted |-> NoCategories])
             /\ search_failed' = (search_failed \/ found.backend = "failed")
             /\ IF names = <<>> THEN record_optimizer_context(intent)
                ELSE UNCHANGED <<entries, added>>
    /\ UNCHANGED <<config_vars, engine_vars, ts_vars, original_reads>>

\* meta/tools.py 237-325: the suggest_tools operation.  The result keeps the
\* intent, the matches and, as tools, the workflow of the semantic return path
\* (the first three matches); on the keyword return path the matches are
\* empty and the workflow, taken from INTENT_PATTERNS, is left out.
SuggestTools(intent) ==
    /\ Len(added) < MaxAdds
    /\ record_optimizer_context(intent)
    /\ \E answer \in SuggestAnswers :
         LET found == suggest_tools_search(intent, answer)
             called == found.backend # "unasked"
             names == [i \in 1..Len(found.matches) |-> found.matches[i].name]
         IN  /\ result' = Outcome("suggest_tools", found.raised,
                                  { names[i] : i \in 1..(IF Len(names) < 3
                                                         THEN Len(names) ELSE 3) },
                                  Len(names), intent,
                        [backend |-> found.backend,
                         ranking |-> IF called THEN answer.tools ELSE <<>>,
                         matches |-> names,
                         categories |-> [i \in 1..Len(found.matches) |->
                                            found.matches[i].category],
                         query |-> intent,
                         k |-> IF called THEN suggest_k ELSE 0,
                         wanted |-> NoCategories])
             /\ search_failed' = (search_failed \/ found.backend = "failed")
    /\ UNCHANGED <<config_vars, engine_vars, ts_vars, original_reads>>

\* A call of SmallModelOptimizer.record_context during a session (the session
\* explored records the query "a", with and without a tool call, next to the
\* intents suggest_tools records)
SessionRecordContext(query, tool_calls) ==
    /\ Len(added) < MaxAdds
    /\ record_context(query, tool_calls)
    /\ result' = Returned("record_context", {}, 0, <<>>)
    /\ UNCHANGED <<search_failed, config_vars, engine_vars, ts_vars, original_reads>>

\* The buffer capacities explored in a session: one below the query window
\* and one above it
SessionSizes == { MaxContextSize, MaxBufferSize }

\* A started server: ToolScopePlugin.rhoai_post_registration has built the
\* index from the host's catalog and SmallModelOptimizerPlugin's hook has then
\* installed the filter (the state Spec reaches by TsInitialize, Install)
InitSession ==
    /\ small_model_mode = MODERATE
    /\ small_model_max_tools = MaxTools
    /\ small_model_pinned_tools = {}
    /\ max_size \in SessionSizes
    /\ host_tools = CatalogNames
    /\ toolscope = "manager"
    /\ ts_config = HttpConfig
    /\ entries = <<>>
    /\ added = <<>>
    /\ list_tools_attr = "filtered"
    /\ all_tools = CatalogNames
    /\ original_list_tools = "original"
    /\ installed = TRUE
    /\ ts_initialized = TRUE
    /\ ts_index = Index(CatalogNames)
    /\ ts_tool_metadata = CatalogNames
    /\ result = NoResult
    /\ original_reads = 1
    /\ search_failed = FALSE

NextSession ==
    \/ \E tc \in ToolCalls : SessionRecordContext(<<"a">>, tc)
    \/ \E intent \in SessionQueries : SuggestTools(intent)
    \/ Clear
    \/ FilteredListTools

SpecSession == InitSession /\ [][NextSession]_vars

(***************************************************************************)
(* Properties                                                              *)
(***************************************************************************)
FilterReturned == result.op = "filtered_list_tools"

Capped == small_model_mode \in {MODERATE, AGGRESSIVE}

\* C1 (as stated): in MODERATE or AGGRESSIVE mode, after install, the filtered
\* list never has more than max_tools entries, whatever the pinned set is.
C1_CapRespected ==
    (installed /\ Capped /\ FilterReturned) => result.n <= small_model_max_tools

\* C1 (amended): in MODERATE or AGGRESSIVE mode, after install, the filtered
\* list has at most max_tools entries whenever at most max_tools pinned names
\* are in the catalog; when more are, it is exactly those pinned tools.
C1_CapOrPinned ==
    (installed /\ Capped /\ FilterReturned) =>
        LET present == small_model_pinned_tools \cap host_tools
        IN  /\ ~result.raised
            /\ IF Cardinality(present) <= small_model_max_tools
               THEN result.n <= small_model_max_tools
               ELSE result.tools = present /\ result.n = Cardinality(present)

\* C1 witness: the cap binds although fewer than max_tools tools are pinned
\* and the semantic step returned matches.
C1_Witness ==
    /\ installed /\ Capped /\ FilterReturned
    /\ result.n = small_model_max_tools
    /\ Cardinality(host_tools) > small_model_max_tools
    /\ Cardinality(small_model_pinned_tools \cap host_tools) < small_model_max_tools
    /\ result.matches # <<>>

\* C2: in every mode except NONE each pinned name of the cached catalog is in
\* every filtered result, and pinned names absent from the catalog are
\* skipped without error.
C2_PinnedIncluded ==
    (small_model_mode # NONE /\ FilterReturned) =>
        /\ ~result.raised
        /\ (small_model_pinned_tools \cap all_tools) \subseteq result.tools
        /\ (small_model_pinned_tools \ all_tools) \cap result.tools = {}

\* C2 witness: a pinned tool is returned next to a pinned name that the
\* catalog lacks, with context recorded and the index READY.
C2_Witness ==
    /\ Capped /\ FilterReturned /\ installed /\ ts_initialized
    /\ entries # <<>>
    /\ MissingName \in small_model_pinned_tools
    /\ "train" \in small_model_pinned_tools \cap result.tools

\* C3: in MINIMAL mode the filtered result is exactly the pinned names that
\* are in the cached catalog; no match and no default is added.
C3_MinimalPurity ==
    (small_model_mode = MINIMAL /\ FilterReturned) =>
        /\ ~result.raised
        /\ result.tools = small_model_pinned_tools \cap all_tools
        /\ result.n = Cardinality(small_model_pinned_tools \cap all_tools)

\* C3 witness: MINIMAL mode with a READY index, a non-empty combined query and
\* an unpinned default in the catalog.
C3_Witness ==
    /\ small_model_mode = MINIMAL /\ FilterReturned /\ installed
    /\ ts_initialized /\ get_combined_query(entries) # <<>>
    /\ "explore_cluster" \in all_tools \ small_model_pinned_tools
    /\ result.tools # {}

\* C4: a filtered list-tools call never ends in an error; it returns a
\* (possibly empty) list of catalog tools.
C4_NeverFails ==
    FilterReturned =>
        /\ ~result.raised
        /\ result.tools \subseteq host_tools
        /\ result.n = Cardinality(result.tools)

\* C4 witness: the call returned although the embedding query failed.
C4_Witness ==
    /\ FilterReturned /\ ~result.raised
    /\ ts_initialized /\ result.backend = "failed"

\* C5: in MODERATE or AGGRESSIVE mode, when the semantic step contributes no
\* match, the result is the pinned names of the catalog plus the defaults
\* explore_cluster, cluster_summary, project_summary of the catalog, taken in
\* that order while the result is below max_tools.
C5_DegradedResult ==
    (Capped /\ FilterReturned /\ result.matches = <<>>) =>
        LET present == small_model_pinned_tools \cap all_tools
            order == <<"explore_cluster", "cluster_summary", "project_summary">>
            candidate(i) == order[i] \in all_tools \ present
            rank(i) == Cardinality({ j \in 1..(i - 1) : candidate(j) })
            taken == { order[i] : i \in { j \in 1..3 :
                          candidate(j) /\
                          Cardinality(present) + rank(j) < small_model_max_tools } }
        IN  /\ ~result.raised
            /\ result.tools = present \cup taken

\* C5 witness: the embedding query failed, the first default was added and the
\* cap kept the last default out.
C5_Witness ==
    /\ Capped /\ FilterReturned /\ result.backend = "failed"
    /\ "explore_cluster" \in result.tools \ small_model_pinned_tools
    /\ "project_summary" \in all_tools \ result.tools

\* C6: the buffer never holds more than max_size entries, and add always
\* succeeds: the entry it was given is the newest one retained.
C6_BufferCapacity ==
    /\ Len(entries) <= max_size
    /\ result.op = "add" =>
          /\ ~result.raised
          /\ entries # <<>>
          /\ entries[Len(entries)] = added[Len(added)]

\* C6 witness: an add made when the buffer was already full.
C6_Witness ==
    /\ result.op = "add"
    /\ Len(added) > max_size
    /\ Len(entries) = max_size

\* C7: the entries are exactly the last min(n, max_size) entries added since
\* construction or the last clear, in the order they were added.
C7_StrictFifo ==
    LET n == Len(added)
        kept == IF n < max_size THEN n ELSE max_size
    IN  /\ Len(entries) = kept
        /\ \A i \in 1..kept : entries[i] = added[n - kept + i]

\* C7 witness: one entry was evicted and the retained ones differ, so their
\* order is visible.
C7_Witness ==
    /\ max_size >= 2
    /\ Len(added) = max_size + 1
    /\ result.op = "add"
    /\ entries[1] # entries[2]
    /\ added[1] # entries[1]

\* C8: get_combined_query returns the queries of the last 3 retained entries
\* (all of them when fewer are held) joined by single spaces, oldest first;
\* the window of 3 is independent of the capacity and applied after eviction.
C8_CombinedQuery ==
    result.op = "get_combined_query" =>
        LET n == Len(added)
            kept == IF n < max_size THEN n ELSE max_size
            w == IF kept < 3 THEN kept ELSE 3
            q(i) == added[n - w + i].query
        IN  /\ ~result.raised
            /\ result.text =
                 IF w = 0 THEN <<>>
                 ELSE IF w = 1 THEN q(1)
                 ELSE IF w = 2 THEN q(1) \o <<" ">> \o q(2)
                 ELSE q(1) \o <<" ">> \o q(2) \o <<" ">> \o q(3)

\* C8 witness: capacity 3 and four adds with different queries, so the result
\* is built from adds 2, 3 and 4.
C8_Witness ==
    /\ result.op = "get_combined_query"
    /\ max_size = 3
    /\ Len(added) = 4
    /\ added[1].query # added[2].query
    /\ added[2].query # added[4].query
    /\ result.text # <<>>

\* C9: the engine reads the host's raw enumeration exactly once, at install;
\* afterwards no operation reads it again and the cached catalog stays the
\* catalog captured at install.
C9_ReadOnce ==
    /\ original_reads = (IF installed THEN 1 ELSE 0)
    /\ installed => all_tools = host_tools /\ list_tools_attr = "filtered"

\* C9 witness: an installed engine that has answered a count query after
\* context was recorded.
C9_Witness ==
    /\ installed /\ original_reads = 1
    /\ host_tools # {}
    /\ entries # <<>>
    /\ result.op = "get_visible_tool_count"
    /\ result.n > 0

\* C10: in mode NONE install leaves the host's entry point and is_installed
\* alone, and the engine's filtering operation returns the original
\* unfiltered catalog.
C10_NoneTransparent ==
    small_model_mode = NONE =>
        /\ ~installed
        /\ list_tools_attr = "original"
        /\ FilterReturned => ~result.raised /\ result.tools = host_tools

\* The text get_combined_query gives for the adds made so far, written from
\* the add history: the last min(n, max_size, 3) queries, space-separated.
CombinedOfAdded ==
    LET n == Len(added)
        kept == IF n < max_size THEN n ELSE max_size
        w == IF kept < 3 THEN kept ELSE 3
        q(i) == added[n - w + i].query
    IN  IF w = 0 THEN <<>>
        ELSE IF w = 1 THEN q(1)
        ELSE IF w = 2 THEN q(1) \o <<" ">> \o q(2)
        ELSE q(1) \o <<" ">> \o q(2) \o <<" ">> \o q(3)

\* C11: in MODERATE or AGGRESSIVE mode a filtered list-tools call asks the
\* semantic index if and only if max_tools - |pinned /\ catalog| > 0, the index
\* is READY and the combined query is non-empty; the one search it then issues
\* carries the combined query and k = remaining + 5.
C11_SearchGuard ==
    (Capped /\ FilterReturned) =>
        LET remaining == small_model_max_tools -
                            Cardinality(small_model_pinned_tools \cap all_tools)
            ready == toolscope = "manager" /\ ts_initialized /\ ts_index.built
            asked == result.backend # "unasked"
        IN  /\ asked <=> (remaining > 0 /\ ready /\ CombinedOfAdded # <<>>)
            /\ asked => result.query = CombinedOfAdded /\ result.k = remaining + 5
            /\ ~asked => result.matches = <<>>

\* C11 witness: one pinned tool of the catalog and max_tools = 2 leave one
\* slot, so the search went out with the recorded query and k = 6.
C11_Witness ==
    /\ Capped /\ FilterReturned /\ installed
    /\ small_model_max_tools = 2
    /\ Cardinality(small_model_pinned_tools \cap all_tools) = 1
    /\ result.backend = "answered"
    /\ result.query = <<"a">>
    /\ result.k = 6

\* The matched names the semantic step adds for the matches search returned,
\* written from the ranking: the first `remaining` distinct names, in rank
\* order, that are catalog tools and not pinned.
MatchesTaken ==
    LET present == small_model_pinned_tools \cap all_tools
        remaining == small_model_max_tools - Cardinality(present)
        m == result.matches
        eligible(i) == /\ m[i] \in all_tools \ present
                       /\ \A j \in 1..(i - 1) : m[j] # m[i]
        rank(i) == Cardinality({ j \in 1..(i - 1) : eligible(j) })
    IN  { m[i] : i \in { j \in 1..Len(m) : eligible(j) /\ rank(j) < remaining } }

\* C12: when the semantic step runs, the matches are added in the order
\* search returned them until they are exhausted or the visible set reaches
\* max_tools: the matched names in the result other than pinned ones are
\* exactly the first `remaining` eligible ones, a match left out means the
\* result is full, and the top-ranked match that is a catalog tool is always
\* in the result.
C12_MatchesInOrder ==
    (Capped /\ FilterReturned /\ result.backend = "answered") =>
        LET present == small_model_pinned_tools \cap all_tools
            m == result.matches
            in_catalog == { i \in 1..Len(m) : m[i] \in all_tools }
        IN  /\ ~result.raised
            /\ MatchesTaken \subseteq result.tools
            /\ (Range(m) \cap result.tools) \ present = MatchesTaken
            /\ (Range(m) \cap all_tools) \ result.tools # {} =>
                   result.n = small_model_max_tools
            /\ \A i \in in_catalog :
                   (\A j \in in_catalog : i <= j) => m[i] \in result.tools

\* C12 witness: two catalog tools were matched with one free slot; the
\* first-ranked one is in the result and the second-ranked one is not.
C12_Witness ==
    /\ Capped /\ FilterReturned /\ installed
    /\ result.backend = "answered"
    /\ Len(result.matches) = 2
    /\ Range(result.matches) \subseteq all_tools \ small_model_pinned_tools
    /\ result.matches[1] \in result.tools
    /\ result.matches[2] \notin result.tools

\* C13: defaults fill only the slots pinned and matched tools left: nothing
\* pinned or matched is displaced, whatever else is in the result is a default
\* that was added while the result was below max_tools, and a default that is
\* visible without being pinned or matched has every higher-priority default
\* of the catalog (order explore_cluster, cluster_summary, project_summary)
\* visible too.
C13_DefaultsFillRest ==
    (Capped /\ FilterReturned) =>
        LET present == small_model_pinned_tools \cap all_tools
            base == present \cup MatchesTaken
            filled == result.tools \ base
            order == <<"explore_cluster", "cluster_summary", "project_summary">>
        IN  /\ base \subseteq result.tools
            /\ filled \subseteq Range(order)
            /\ filled # {} =>
                   /\ Cardinality(base) < small_model_max_tools
                   /\ result.n <= small_model_max_tools
            /\ \A j \in 1..3 :
                   order[j] \in filled =>
                       \A i \in 1..(j - 1) :
                           order[i] \in all_tools => order[i] \in result.tools

\* C13 witness: a match took one of two slots, the first default took the
\* other, and the next default of the catalog stayed out.
C13_Witness ==
    /\ Capped /\ FilterReturned /\ installed
    /\ small_model_max_tools = 2
    /\ result.matches = <<"train">>
    /\ result.tools = {"train", "explore_cluster"}
    /\ "train" \notin small_model_pinned_tools
    /\ "cluster_summary" \in all_tools

READY == ts_initialized /\ ts_index.built

SearchReturned == result.op = "search"

\* C14: while the index is not READY (never initialized, disabled by the
\* configuration, or initialization failed) search returns an empty list and
\* does not call the embedding backend, whatever query, k and categories are.
C14_NotReadyEmpty ==
    (SearchReturned /\ ~READY) =>
        /\ ~result.raised
        /\ result.matches = <<>>
        /\ result.n = 0
        /\ result.backend = "unasked"

\* C14 witness: a search with a query and categories after an initialize call
\* whose index build failed.
C14_Witness ==
    /\ SearchReturned /\ ~READY
    /\ ts_config = HttpConfig /\ ts_tool_metadata # {}
    /\ result.query # <<>>
    /\ result.wanted.names # {}

\* C15: when the index is READY and a query fails, search returns an empty
\* list for that query, no error reaches the caller and the index stays
\* READY and unchanged; a query the backend answers returns the backend's
\* matches, whether or not an earlier query failed.
C15_FailureIsolated ==
    /\ [](SearchReturned /\ READY =>
            /\ ~result.raised
            /\ result.backend \in {"failed", "answered"}
            /\ result.backend = "failed" => result.matches = <<>> /\ result.n = 0
            /\ (result.backend = "answered" /\ ~result.wanted.given) =>
                   result.matches = result.ranking)
    /\ [][(READY /\ result'.op = "search") =>
             (READY' /\ ts_index' = ts_index /\ ts_initialized' = ts_initialized)]_vars

\* C15 witness: a query answered with matches after an earlier query of the
\* same index had failed.
C15_Witness ==
    /\ SearchReturned /\ READY
    /\ search_failed
    /\ result.backend = "answered"
    /\ result.matches # <<>>

InitializeReturned == result.op = "initialize"

\* C16: initialize never raises: a failure while the catalog is extracted,
\* the embedding provider is constructed (a local model that fails to load
\* included) or the index is built leaves the manager not READY, without an
\* error reaching the caller.
C16_InitializeNeverRaises ==
    InitializeReturned => ~result.raised

\* The configurations that rule semantic search out
RuledOut ==
    \/ ~ts_config.enabled
    \/ ts_config.type = "disabled"
    \/ ts_config.type = "http" /\ ts_config.url = ""

\* C17: when the configuration rules semantic search out (search disabled,
\* embedder type disabled, or the http embedder without a URL), initialize
\* returns without raising and without building an index, and the manager
\* stays not READY.
C17_RuledOutStaysDown ==
    RuledOut =>
        /\ ~ts_initialized
        /\ ts_index = NoIndex
        /\ InitializeReturned => ~result.raised

\* C17 witness: initialize has read a non-empty catalog under the http
\* embedder type with no URL.
C17_Witness ==
    /\ InitializeReturned
    /\ ts_config.enabled /\ ts_config.type = "http" /\ ts_config.url = ""
    /\ ts_tool_metadata # {}

\* C18: READY is terminal: once is_initialized is true it stays true, and no
\* later operation (a search, a failing search, another initialize call)
\* replaces or modifies the index that was built.
C18_ReadyTerminal ==
    [][READY => (READY' /\ ts_index' = ts_index)]_vars

\* The categories the tests expect for the names they try
ExpectedCategory ==
    ("train" :> "training") @@ ("prepare_training" :> "training") @@
    ("get_training_progress" :> "training") @@ ("deploy_model" :> "inference") @@
    ("list_workbenches" :> "workbenches") @@ ("create_notebook" :> "workbenches") @@
    ("create_storage" :> "storage") @@ ("pvc_status" :> "storage") @@
    ("cluster_summary" :> "discovery") @@ ("explore_cluster" :> "discovery") @@
    ("list_resources" :> "discovery") @@ ("unknown_tool" :> "other")

\* C19: category inference is a first match over the table order training,
\* inference, workbenches, storage, connections, pipelines, projects,
\* discovery: a name gets the first category one of whose patterns is a
\* substring of the lower-cased name, "other" when none is, and the same
\* category on every call.
C19_FirstMatch ==
    result.op = "infer_category" =>
        LET tool_name == result.matches[1]
            category == result.categories[1]
            order == <<"training", "inference", "workbenches", "storage",
                       "connections", "pipelines", "projects", "discovery">>
            text == lower(Spelling[tool_name])
            hit(i) == \E j \in 1..Len(category_patterns) :
                         /\ category_patterns[j].category = order[i]
                         /\ \E p \in Range(category_patterns[j].patterns) :
                                Contains(p, text)
            hits == { i \in 1..8 : hit(i) }
        IN  /\ ~result.raised
            /\ hits = {} => category = "other"
            /\ hits # {} =>
                   \E i \in hits : /\ category = order[i]
                                   /\ \A j \in hits : i <= j
            /\ tool_name \in DOMAIN ExpectedCategory =>
                   category = ExpectedCategory[tool_name]
            /\ category = ToolMatch(tool_name).category

\* C19 witness: a name that holds a pattern of inference and a pattern of
\* storage got inference.
C19_Witness ==
    /\ result.op = "infer_category"
    /\ result.matches = <<"model_storage">>
    /\ result.categories = <<"inference">>

\* C20: when search is given a categories argument, empty or not, every
\* match it returns has an inferred category in categories, and the matches
\* are the backend's ranking restricted to those categories, in the order of
\* the ranking.
C20_CategoriesFilter ==
    (SearchReturned /\ READY /\ result.wanted.given /\ result.backend = "answered") =>
        LET kept == { i \in 1..Len(result.ranking) :
                        Category[result.ranking[i]] \in result.wanted.names }
            position(n) == CHOOSE i \in kept :
                              Cardinality({ j \in kept : j <= i }) = n
        IN  /\ \A i \in 1..Len(result.categories) :
                   result.categories[i] \in result.wanted.names
            /\ Len(result.matches) = Cardinality(kept)
            /\ \A n \in 1..Len(result.matches) :
                   result.matches[n] = result.ranking[position(n)]

\* C21: get_recent_tool_calls returns, each name once, exactly the tool names
\* of the entries the buffer retains now: the last min(n, max_size) entries
\* added since construction or the last clear.
C21_RecentToolCalls ==
    result.op = "get_recent_tool_calls" =>
        LET n == Len(added)
            kept == IF n < max_size THEN n ELSE max_size
            names == { name \in UNION { Range(tc) : tc \in ToolCalls } :
                         \E i \in (n - kept + 1)..n :
                            \E j \in 1..Len(added[i].tool_calls) :
                               added[i].tool_calls[j] = name }
        IN  /\ ~result.raised
            /\ result.tools = names
            /\ result.n = Cardinality(names)

\* C21 witness: the only entry that recorded a tool call has been evicted,
\* and the call returned no name.
C21_Witness ==
    /\ result.op = "get_recent_tool_calls"
    /\ Len(added) > max_size
    /\ added[1].tool_calls = <<"train">>
    /\ result.tools = {}

\* The queries of the last w record_context calls since construction or the
\* last clear, oldest first, joined by single spaces
JoinedCalls(w) ==
    Join([i \in 1..w |-> added[Len(added) - w + i].query], <<SPACE>>)

\* The smaller of two numbers
Min(a, b) == IF a < b THEN a ELSE b

\* C22 (as stated): at every filtered list-tools call the query of the semantic
\* step is the space-joined text of the last min(3, n) record_context calls
\* since construction or the last clear, in call order; with n = 0 no search
\* is made.
C22_LastCallsJoined ==
    FilterReturned =>
        /\ result.backend # "unasked" =>
               result.query = JoinedCalls(Min(QueryWindow, Len(added)))
        /\ added = <<>> => result.backend = "unasked"

\* C22 (amended): at every filtered list-tools call the query of the semantic
\* step is the space-joined text of the last min(3, n, capacity) record_context
\* calls since construction or the last clear, in call order, where capacity
\* is the buffer size the engine was configured with; with n = 0 no search is
\* made.
C22_RetainedCallsJoined ==
    FilterReturned =>
        /\ result.backend # "unasked" =>
               result.query = JoinedCalls(Min(QueryWindow, Min(Len(added), max_size)))
        /\ added = <<>> => result.backend = "unasked"

\* A search for "b a" after record_context("a"), ("b"), ("a") on a buffer
\* of capacity 2: the first call has been evicted
C22_Witness ==
    /\ FilterReturned
    /\ result.backend = "answered"
    /\ max_size = 2
    /\ Len(added) = 3
    /\ added[1].query = <<"a">> /\ added[2].query = <<"b">> /\ added[3].query = <<"a">>
    /\ result.query = <<"b", SPACE, "a">>

\* What a search for one tool returns in the present state when the backend
\* answers it with "train"
SearchResults ==
    ToolScopeSearch(<<"a">>, 1, NoCategories, [raised |-> FALSE, tools |-> <<"train">>])

\* C23: a search call, whether it succeeds, returns nothing or fails, changes
\* none of the manager's state (READY flag, index reference, tool metadata),
\* so what a later search of any session returns for a given answer of the
\* backend is what it returned before: searches on one shared index give the
\* same results in every order.
C23_SearchReadOnly ==
    [][result'.op = "search" =>
          /\ ts_initialized' = ts_initialized
          /\ ts_index' = ts_index
          /\ ts_tool_metadata' = ts_tool_metadata
          /\ SearchResults' = SearchResults]_vars

\* A search of a READY index that is answered after an earlier search failed,
\* with the tool metadata still in place
C23_Witness ==
    /\ SearchReturned /\ READY
    /\ search_failed
    /\ result.backend = "answered"
    /\ ts_tool_metadata = {"train", "explore_cluster"}
    /\ ts_index = Index({"train", "explore_cluster"})

SuggestReturned == result.op = "suggest_tools"

\* C24: every suggest_tools call made while an optimizer is installed appends
\* exactly one context entry carrying the intent (and no tool calls) to the
\* optimizer's buffer, whether it returns by the semantic or by the keyword
\* path; the filtered list-tools call that follows it searches with a combined
\* query that ends with that intent.
C24_SuggestRecords ==
    /\ [][(installed /\ result'.op = "suggest_tools") =>
             /\ added' = Append(added, ContextEntry(result'.query, <<>>))
             /\ entries' = DequeAppend(entries, ContextEntry(result'.query, <<>>),
                                       max_size)]_vars
    /\ [][(installed /\ SuggestReturned /\ result'.op = "filtered_list_tools"
             /\ result'.backend # "unasked") =>
               LastN(result'.query, Len(result.query)) = result.query]_vars

\* suggest_tools("b") has returned by the semantic path after suggest_tools("a")
\* returned by the keyword path, and both intents are in the buffer
C24_Witness ==
    /\ SuggestReturned /\ installed
    /\ result.matches # <<>>
    /\ result.query = <<"b">>
    /\ search_failed
    /\ entries = <<ContextEntry(<<"a">>, <<>>), ContextEntry(<<"b">>, <<>>)>>

\* C25: with a filtering mode other than NONE and an index build that succeeds,
\* once both post-registration hooks have run the indexed tool names are the
\* optimizer's cached catalog, whichever hook ran first: the step that
\* completes the pair (the first initialize after install, or the first
\* install after initialize) leaves an index over the whole catalog.
C25_IndexCoversCatalog ==
    /\ [][(installed /\ ~ts_initialized /\ ts_tool_metadata = {}
             /\ result'.op = "initialize" /\ ts_initialized') =>
               ts_index'.tools = all_tools']_vars
    /\ [][(~installed /\ READY /\ result'.op = "install" /\ installed') =>
               ts_index'.tools = all_tools']_vars

\* C26: a filtered list-tools call, and get_visible_tool_count which runs the
\* same filter, leaves the buffer's entries, the cached catalog, the
\* configuration and the installed flag as they were; two list-tools calls in
\* a row that get the same answer from the semantic index (or both none)
\* return the same set of tools.
C26_FilterReadOnly ==
    /\ [][result'.op \in {"filtered_list_tools", "get_visible_tool_count"} =>
             /\ entries' = entries
             /\ all_tools' = all_tools
             /\ installed' = installed
             /\ UNCHANGED config_vars]_vars
    /\ [][(FilterReturned /\ result'.op = "filtered_list_tools"
             /\ result'.raised = result.raised
             /\ result'.backend = result.backend
             /\ result'.ranking = result.ranking) =>
               result'.tools = result.tools]_vars

\* A filtered call that took a tool from the semantic answer, with the
\* recorded query still in the buffer and the cached catalog in place
C26_Witness ==
    /\ FilterReturned /\ installed
    /\ entries = <<ContextEntry(<<"a">>, <<>>)>>
    /\ result.backend = "answered"
    /\ "train" \in result.tools
    /\ all_tools = host_tools

\* The queries of the last three entries the buffer retains, joined
LastQueries ==
    LET w == Min(QueryWindow, Len(entries))
    IN  Join([i \in 1..w |-> entries[Len(entries) - w + i].query], <<SPACE>>)

\* The tools a capped filter shows when the semantic step contributes the
\* ranking m: the pinned tools of the catalog, the first eligible matches while
\* slots remain, then the defaults of the catalog while slots remain
VisibleFor(m) ==
    LET present == small_model_pinned_tools \cap all_tools
        remaining == small_model_max_tools - Cardinality(present)
        eligible(i) == /\ m[i] \in all_tools \ present
                       /\ \A j \in 1..(i - 1) : m[j] # m[i]
        rank(i) == Cardinality({ j \in 1..(i - 1) : eligible(j) })
        taken == { m[i] : i \in { j \in 1..Len(m) : eligible(j) /\ rank(j) < remaining } }
        base == present \cup taken
        order == <<"explore_cluster", "cluster_summary", "project_summary">>
        candidate(i) == order[i] \in all_tools \ base
        place(i) == Cardinality({ j \in 1..(i - 1) : candidate(j) })
        filled == { order[i] : i \in { j \in 1..3 :
                       candidate(j) /\
                       Cardinality(base) + place(j) < small_model_max_tools } }
    IN  base \cup filled

\* C27: the result of a capped filtered list-tools call is a function of the
\* configuration, the catalog, the state of the index, the queries of the last
\* three retained entries and the answer the index gives to their join: the
\* tool_calls of the entries and the entries older than the last three have
\* no part in it, so two engines that differ only in those return the same
\* tools.
C27_OnlyLastQueries ==
    (Capped /\ FilterReturned) =>
        /\ result.backend # "unasked" <=>
               (Remaining > 0 /\ toolscope # "None" /\ ts_initialized
                  /\ LastQueries # <<>>)
        /\ result.backend # "unasked" => result.query = LastQueries
        /\ result.tools = VisibleFor(IF result.backend = "answered"
                                     THEN result.ranking ELSE <<>>)

\* A search for "a a a" made with four entries retained: the oldest entry has
\* another query and the newest one names a tool call
C27_Witness ==
    /\ FilterReturned
    /\ Len(entries) = 4
    /\ entries[1].query = <<"b">>
    /\ entries[4].tool_calls = <<"train">>
    /\ result.backend = "answered"
    /\ result.query = <<"a", SPACE, "a", SPACE, "a">>
    /\ result.tools = {"train", "explore_cluster"}

\* C28: in a mode other than NONE every tool a filtered list-tools call
\* returns is a tool of the cached catalog and is returned once, whatever the
\* semantic search answered: names outside the catalog are left out, and a
\* name that is pinned or ranked more than once is listed a single time.
C28_CatalogToolsOnce ==
    (small_model_mode # NONE /\ FilterReturned) =>
        /\ ~result.raised
        /\ result.tools \subseteq all_tools
        /\ result.n = Cardinality(result.tools)
        /\ Range(result.ranking) \cap result.tools \subseteq all_tools
        /\ result.n <= Cardinality(all_tools)

\* The index ranked twice a tool that is pinned, next to a pinned name the
\* catalog does not have; the tool is listed once
C28_Witness ==
    /\ FilterReturned /\ Capped
    /\ Len(result.ranking) = 2
    /\ result.ranking[1] = result.ranking[2]
    /\ result.ranking[1] \in small_model_pinned_tools \cap all_tools
    /\ MissingName \in small_model_pinned_tools
    /\ result.ranking[1] \in result.tools

\* C29: install is idempotent: a second install on the same host leaves the
\* engine as the first one left it; the cached catalog is still the host's
\* catalog and the stored original enumerator is still the host's own
\* enumeration, not the engine's filter.
C29_InstallIdempotent ==
    /\ [][(installed /\ result'.op = "install") =>
             /\ installed'
             /\ all_tools' = all_tools
             /\ list_tools_attr' = list_tools_attr
             /\ original_list_tools' = original_list_tools]_vars
    /\ [](installed => (all_tools = host_tools /\ original_list_tools = "original"))

\* C30: a manager that is not READY reports zero indexed tools: in every
\* reachable state is_initialized = false implies tool_count = 0, whether
\* initialize was never called, was skipped by the configuration, or failed
\* at the construction of the embedder or at the index build.
C30_NotReadyNoTools ==
    ~ts_initialized => tool_count = 0
====
